---- MODULE Spec2Model ----
(***************************************************************************)
(* Source-structure analysis of the Mini IDE (src/fallaoi-cpp.py): the     *)
(* fold-region analyzer for the indentation grammar (.py) and the brace    *)
(* grammar (.c/.cpp/.h), the fold toggle, the highlight pass, and the      *)
(* threads and child processes of Run, Stop and the terminal.              *)
(*                                                                         *)
(* Text is modelled character by character: a line is a sequence of        *)
(* one-character strings, a buffer is a non-empty sequence of lines (the   *)
(* Tk text widget's own line model), and `content` is the flat character   *)
(* sequence editor.get("1.0", "end-1c") returns, newlines included.        *)
(***************************************************************************)
EXTENDS Integers, Sequences, FiniteSets, TLC

VARIABLES
    opened,         \* an editor tab exists (new_editor_tab has run)
    filepath,       \* frame.filepath of the tab, "" (<<>>) when untitled
    text,           \* the editor buffer, a sequence of lines
    fold_regions,   \* self.fold_regions.get(editor, []), a list of <<type, start, end>>
    snapshot,       \* `lines` of the latest analysis pass that stored a result
    marks,          \* the names of the marks set on the editor (fold_<n>)
    tags,           \* the style tags on the buffer: a set of <<tag, line, col>>
    raised,         \* the exception the latest handler ended with, "" when none
    hist,           \* the handler calls since the latest edit, the latest two, newest last
    PYGMENTS_AVAILABLE, \* whether the import of pygments succeeded (line 54-59)
    threads,        \* the threads started by Run and by the terminal, with their child process
    term_proc,      \* TerminalTab.proc of the selected terminal: the thread whose child it is, 0 for None
    others          \* the editor tabs that are not selected, oldest first, each with its entry
                    \* of self.fold_regions

vars ==
    <<opened, filepath, text, fold_regions, snapshot, marks, tags, raised, hist,
      PYGMENTS_AVAILABLE, threads, term_proc, others>>

----------------------------------------------------------------------------
(* Characters and the str methods the analyzer uses.                       *)

NL == "\n"

IsSpace(c) == c \in {" ", "\t"}

WordChars ==
    {"a","b","c","d","e","f","g","h","i","j","k","l","m","n","o","p","q","r","s",
     "t","u","v","w","x","y","z","A","B","C","D","E","F","G","H","I","J","K","L",
     "M","N","O","P","Q","R","S","T","U","V","W","X","Y","Z","0","1","2","3","4",
     "5","6","7","8","9","_"}

IsWord(c) == c \in WordChars

SetMin(S) == CHOOSE x \in S : \A y \in S : x <= y

SetMax(S) == CHOOSE x \in S : \A y \in S : x >= y

NonSpaceAt(s) == {k \in 1..Len(s) : ~IsSpace(s[k])}

lstrip(s) == IF NonSpaceAt(s) = {} THEN <<>> ELSE SubSeq(s, SetMin(NonSpaceAt(s)), Len(s))

strip(s) ==
    IF NonSpaceAt(s) = {} THEN <<>>
    ELSE SubSeq(s, SetMin(NonSpaceAt(s)), SetMax(NonSpaceAt(s)))

startswith(s, p) == Len(s) >= Len(p) /\ SubSeq(s, 1, Len(p)) = p

endswith(s, p) == Len(s) >= Len(p) /\ SubSeq(s, Len(s) - Len(p) + 1, Len(s)) = p

\* `p in s` for strings
Contains(s, p) == \E k \in 0..(Len(s) - Len(p)) : SubSeq(s, k + 1, k + Len(p)) = p

\* sep.join(parts)
RECURSIVE join(_, _)
join(sep, parts) ==
    IF parts = <<>> THEN <<>>
    ELSE IF Len(parts) = 1 THEN parts[1]
    ELSE parts[1] \o sep \o join(sep, Tail(parts))

\* content.split('\n'): always at least one line, the last one after the last newline
RECURSIVE split(_)
split(content) ==
    LET nls == {k \in 1..Len(content) : content[k] = NL} IN
    IF nls = {} THEN <<content>>
    ELSE <<SubSeq(content, 1, SetMin(nls) - 1)>>
             \o split(SubSeq(content, SetMin(nls) + 1, Len(content)))

\* editor.get("1.0", "end-1c"): the buffer's lines joined by newlines
editor_get(buf) == join(<<NL>>, buf)

----------------------------------------------------------------------------
(* _analyze_code_structure, indentation grammar (.py).                     *)

KwClass == <<"c","l","a","s","s"," ">>
KwDef == <<"d","e","f"," ">>

indent_of(line) == Len(line) - Len(lstrip(line))

\* the while loop of lines 685-688: pop every entry whose indent is >= current_indent
RECURSIVE PopWhile(_, _, _, _)
PopWhile(stack, regions, current_indent, i) ==
    IF stack # <<>> /\ stack[Len(stack)][3] >= current_indent
    THEN LET top == stack[Len(stack)]
             rest == SubSeq(stack, 1, Len(stack) - 1) IN
         PopWhile(rest,
                  IF i > top[2] THEN Append(regions, <<top[1], top[2], i>>) ELSE regions,
                  current_indent, i)
    ELSE [indent_stack |-> stack, fold_regions |-> regions]

\* one iteration of the for loop of lines 673-690
PyLine(st, i, line) ==
    LET stripped == strip(line) IN
    IF startswith(stripped, KwClass)
    THEN [st EXCEPT !.indent_stack = Append(@, <<"class", i, indent_of(line)>>)]
    ELSE IF startswith(stripped, KwDef)
    THEN [st EXCEPT !.indent_stack = Append(@, <<"function", i, indent_of(line)>>)]
    ELSE IF endswith(stripped, <<":">>) /\ ~startswith(stripped, <<"#">>)
    THEN LET popped == PopWhile(st.indent_stack, st.fold_regions, indent_of(line), i) IN
         [popped EXCEPT !.indent_stack = Append(@, <<"block", i, indent_of(line)>>)]
    ELSE st

RECURSIVE PyLines(_, _, _)
PyLines(st, i, lines) ==
    IF i > Len(lines) THEN st ELSE PyLines(PyLine(st, i, lines[i]), i + 1, lines)

\* lines 692-694: the entries left on the stack, bottom first, closed at len(lines)
CloseRemaining(stack, n) == [k \in 1..Len(stack) |-> <<stack[k][1], stack[k][2], n>>]

AnalyzePy(lines) ==
    LET st == PyLines([indent_stack |-> <<>>, fold_regions |-> <<>>], 1, lines) IN
    st.fold_regions \o CloseRemaining(st.indent_stack, Len(lines))

----------------------------------------------------------------------------
(* _analyze_code_structure, brace grammar (.c, .cpp, .h).                  *)

FoldKeywords ==
    { <<"c","l","a","s","s">>, <<"s","t","r","u","c","t">>, <<"e","n","u","m">>,
      <<"u","n","i","o","n">>, <<"n","a","m","e","s","p","a","c","e">> }

\* re.search(r'\w+\s*\([^)]*\)\s*$', s): a word character, optional blanks, '(',
\* no ')' up to a ')' that only blanks follow
SignatureAtEnd(s) ==
    \E q \in 1..Len(s) :
        /\ s[q] = ")"
        /\ \A k \in (q + 1)..Len(s) : IsSpace(s[k])
        /\ \E p \in 1..(q - 1) :
              /\ s[p] = "("
              /\ \A k \in (p + 1)..(q - 1) : s[k] # ")"
              /\ \E r \in 1..(p - 1) :
                    /\ IsWord(s[r])
                    /\ \A k \in (r + 1)..(p - 1) : IsSpace(s[k])

\* lines[max(0, i-2):i-1]: the line before line i, none for the first line
PrevLines(lines, i) == IF i >= 2 THEN <<lines[i - 1]>> ELSE <<>>

\* lines 740-742: does the '{' at column j of line i (columns from 1) open a fold
OpensFold(lines, i, j) ==
    LET prev_text == join(<<" ">>, PrevLines(lines, i) \o <<SubSeq(lines[i], 1, j - 1)>>) IN
    \/ \E keyword \in FoldKeywords : Contains(prev_text, keyword)
    \/ SignatureAtEnd(join(<<NL>>, PrevLines(lines, i)))

\* lines 698-701: the scanner's state before the first line
ScanInit ==
    [brace_stack |-> <<>>, in_comment |-> FALSE, in_string |-> FALSE,
     escape_next |-> FALSE, fold_regions |-> <<>>]

\* lines 737-748: a character seen outside comments and strings
BraceChar(st, lines, i, j) ==
    LET char == lines[i][j] IN
    IF st.in_comment \/ st.in_string THEN st
    ELSE IF char = "{"
    THEN IF OpensFold(lines, i, j)
         THEN [st EXCEPT !.brace_stack = Append(@, <<"block", i>>)]
         ELSE st
    ELSE IF char = "}" /\ st.brace_stack # <<>>
    THEN LET top == st.brace_stack[Len(st.brace_stack)] IN
         [st EXCEPT !.brace_stack = SubSeq(@, 1, Len(@) - 1),
                    !.fold_regions = IF i > top[2] THEN Append(@, <<top[1], top[2], i>>)
                                     ELSE @]
    ELSE st

\* the while loop of lines 705-750 from column j of line i (columns from 1)
RECURSIVE ScanLine(_, _, _, _)
ScanLine(st, lines, i, j) ==
    LET line == lines[i]
        char == line[j]
        more == j + 1 <= Len(line) IN
    IF j > Len(line) THEN st
    ELSE IF st.escape_next
    THEN ScanLine([st EXCEPT !.escape_next = FALSE], lines, i, j + 1)
    ELSE IF char = "\\"
    THEN ScanLine([st EXCEPT !.escape_next = TRUE], lines, i, j + 1)
    ELSE IF char = "\"" /\ ~st.in_comment
    THEN ScanLine([st EXCEPT !.in_string = ~@], lines, i, j + 1)
    ELSE IF char = "/" /\ more /\ ~st.in_string /\ line[j + 1] = "*"
    THEN ScanLine([st EXCEPT !.in_comment = TRUE], lines, i, j + 2)
    ELSE IF char = "/" /\ more /\ ~st.in_string /\ line[j + 1] = "/"
    THEN st
    ELSE IF char = "*" /\ more /\ st.in_comment /\ line[j + 1] = "/"
    THEN ScanLine([st EXCEPT !.in_comment = FALSE], lines, i, j + 2)
    ELSE ScanLine(BraceChar(st, lines, i, j), lines, i, j + 1)

\* the for loop of line 703
RECURSIVE ScanLines(_, _, _)
ScanLines(st, lines, i) ==
    IF i > Len(lines) THEN st ELSE ScanLines(ScanLine(st, lines, i, 1), lines, i + 1)

AnalyzeC(lines) == ScanLines(ScanInit, lines, 1).fold_regions

\* the while loop of lines 705-750 once more, with the cells it visits: seen holds, for
\* every iteration, the line and column of `char` and the scanner's state before and
\* after the iteration
RECURSIVE TraceLine(_, _, _, _, _)
TraceLine(st, lines, i, j, seen) ==
    LET line == lines[i]
        char == line[j]
        more == j + 1 <= Len(line)
        visit(after) == seen \cup {[line |-> i, col |-> j, before |-> st, after |-> after]} IN
    IF j > Len(line) THEN [st |-> st, seen |-> seen]
    ELSE IF st.escape_next
    THEN LET after == [st EXCEPT !.escape_next = FALSE] IN
         TraceLine(after, lines, i, j + 1, visit(after))
    ELSE IF char = "\\"
    THEN LET after == [st EXCEPT !.escape_next = TRUE] IN
         TraceLine(after, lines, i, j + 1, visit(after))
    ELSE IF char = "\"" /\ ~st.in_comment
    THEN LET after == [st EXCEPT !.in_string = ~@] IN
         TraceLine(after, lines, i, j + 1, visit(after))
    ELSE IF char = "/" /\ more /\ ~st.in_string /\ line[j + 1] = "*"
    THEN LET after == [st EXCEPT !.in_comment = TRUE] IN
         TraceLine(after, lines, i, j + 2, visit(after))
    ELSE IF char = "/" /\ more /\ ~st.in_string /\ line[j + 1] = "/"
    THEN [st |-> st, seen |-> visit(st)]
    ELSE IF char = "*" /\ more /\ st.in_comment /\ line[j + 1] = "/"
    THEN LET after == [st EXCEPT !.in_comment = FALSE] IN
         TraceLine(after, lines, i, j + 2, visit(after))
    ELSE LET after == BraceChar(st, lines, i, j) IN
         TraceLine(after, lines, i, j + 1, visit(after))

\* TraceLines with in_comment reset at the start of every line
RECURSIVE TraceLines_LineLocalComment(_, _, _, _)
TraceLines_LineLocalComment(st, lines, i, seen) ==
    IF i > Len(lines) THEN [st |-> st, seen |-> seen]
    ELSE LET done == TraceLine([st EXCEPT !.in_comment = FALSE], lines, i, 1, seen) IN
         TraceLines_LineLocalComment(done.st, lines, i + 1, done.seen)

\* the for loop of line 703, with the cells visited
RECURSIVE TraceLines(_, _, _, _)
TraceLines(st, lines, i, seen) ==
    IF i > Len(lines) THEN [st |-> st, seen |-> seen]
    ELSE LET done == TraceLine(st, lines, i, 1, seen) IN
         TraceLines(done.st, lines, i + 1, done.seen)

ScanTrace(lines) == TraceLines(ScanInit, lines, 1, {})

ExtPy == <<".","p","y">>
ExtC == <<".","c">>
ExtCpp == <<".","c","p","p">>
ExtH == <<".","h">>

\* lines 665-750: the region list an analysis pass of a titled buffer computes
Regions(path, lines) ==
    IF endswith(path, ExtPy) THEN AnalyzePy(lines)
    ELSE IF endswith(path, ExtC) \/ endswith(path, ExtCpp) \/ endswith(path, ExtH)
    THEN AnalyzeC(lines)
    ELSE <<>>

----------------------------------------------------------------------------
(* _apply_syntax_highlight. The lexers are the pygments library's; Lex is  *)
(* a line-local tokenizer standing for them: its tokens tile the content   *)
(* in order, as pygments' do, and a tag name is str(token_type) split at   *)
(* the dots.                                                               *)

ExtCc == <<".","c","c">>
ExtCxx == <<".","c","x","x">>
ExtHpp == <<".","h","p","p">>

\* lines 860-869: the lexer chosen by the file name, "" for none
LexerFor(path) ==
    IF endswith(path, ExtPy) THEN "PythonLexer"
    ELSE IF endswith(path, ExtC) THEN "CLexer"
    ELSE IF \E x \in {ExtCpp, ExtCc, ExtCxx, ExtH, ExtHpp} : endswith(path, x) THEN "CppLexer"
    ELSE ""

PyKeywords == { <<"d","e","f">>, <<"c","l","a","s","s">>, <<"i","f">>, <<"p","a","s","s">> }

CKeywords == { <<"s","t","r","u","c","t">> }

CTypes == { <<"v","o","i","d">>, <<"i","n","t">>, <<"c","h","a","r">> }

\* the end (inclusive) of the run of blanks that starts at j
SpaceRunEnd(line, j) ==
    IF \A k \in j..Len(line) : IsSpace(line[k]) THEN Len(line)
    ELSE SetMin({k \in j..Len(line) : ~IsSpace(line[k])}) - 1

\* the end (inclusive) of the run of word characters that starts at j
WordRunEnd(line, j) ==
    IF \A k \in j..Len(line) : IsWord(line[k]) THEN Len(line)
    ELSE SetMin({k \in j..Len(line) : ~IsWord(line[k])}) - 1

\* the end of the string literal opened at j: its closing unescaped quote, or the line's end
RECURSIVE StringEnd(_, _)
StringEnd(line, k) ==
    IF k > Len(line) THEN Len(line)
    ELSE IF line[k] = "\\" THEN StringEnd(line, k + 2)
    ELSE IF line[k] = "\"" THEN k
    ELSE StringEnd(line, k + 1)

\* the end of the block comment opened at j: its closing */, or the line's end
BlockCommentEnd(line, j) ==
    LET ends == {k \in (j + 2)..(Len(line) - 1) : line[k] = "*" /\ line[k + 1] = "/"} IN
    IF ends = {} THEN Len(line) ELSE SetMin(ends) + 1

WordType(lexer, word, prev) ==
    IF lexer = "PythonLexer"
    THEN IF word \in PyKeywords THEN <<"Token", "Keyword">>
         ELSE IF prev = <<"d","e","f">> THEN <<"Token", "Name", "Function">>
         ELSE IF prev = <<"c","l","a","s","s">> THEN <<"Token", "Name", "Class">>
         ELSE IF word = <<"s","e","l","f">> THEN <<"Token", "Name", "Builtin", "Pseudo">>
         ELSE <<"Token", "Name">>
    ELSE IF word \in CKeywords THEN <<"Token", "Keyword">>
         ELSE IF word \in CTypes THEN <<"Token", "Keyword", "Type">>
         ELSE <<"Token", "Name">>

\* the tokens of one line from column j on; prev is the word token before j
RECURSIVE LexLine(_, _, _, _)
LexLine(lexer, line, j, prev) ==
    LET c == line[j]
        tok(ty, e) == << [type |-> ty, value |-> SubSeq(line, j, e)] >>
        isC == lexer # "PythonLexer" IN
    IF j > Len(line) THEN <<>>
    ELSE IF IsSpace(c)
    THEN LET e == SpaceRunEnd(line, j) IN
         tok(<<"Token", "Text">>, e) \o LexLine(lexer, line, e + 1, prev)
    ELSE IF IsWord(c)
    THEN LET e == WordRunEnd(line, j) IN
         tok(WordType(lexer, SubSeq(line, j, e), prev), e)
             \o LexLine(lexer, line, e + 1, SubSeq(line, j, e))
    ELSE IF c = "\""
    THEN LET e == StringEnd(line, j + 1) IN
         tok(<<"Token", "Literal", "String">>, e) \o LexLine(lexer, line, e + 1, <<>>)
    ELSE IF (~isC /\ c = "#") \/ (isC /\ c = "/" /\ j < Len(line) /\ line[j + 1] = "/")
    THEN tok(<<"Token", "Comment", "Single">>, Len(line))
    ELSE IF isC /\ c = "/" /\ j < Len(line) /\ line[j + 1] = "*"
    THEN LET e == BlockCommentEnd(line, j) IN
         tok(<<"Token", "Comment", "Multiline">>, e) \o LexLine(lexer, line, e + 1, <<>>)
    ELSE IF c \in {"(", ")", "{", "}", ":", ";", ","}
    THEN tok(<<"Token", "Punctuation">>, j) \o LexLine(lexer, line, j + 1, <<>>)
    ELSE tok(<<"Token", "Operator">>, j) \o LexLine(lexer, line, j + 1, <<>>)

\* lex(content, lexer): the (token_type, value) pairs in order; every line ends with a
\* newline token (pygments adds a final newline when the content has none)
RECURSIVE Lex(_, _, _)
Lex(lexer, lines, i) ==
    IF i > Len(lines) THEN <<>>
    ELSE LexLine(lexer, lines[i], 1, <<>>)
         \o (IF i = Len(lines) /\ lines[i] = <<>> /\ i > 1 THEN <<>>
             ELSE <<[type |-> <<"Token", "Text">>, value |-> <<NL>>]>>)
         \o Lex(lexer, lines, i + 1)

\* the columns editor.search(value, start, stopindex="end") finds on one line from
\* column j on, each match starting where the one before ended (lines 907-914)
RECURSIVE MatchStarts(_, _, _)
MatchStarts(row, value, j) ==
    LET hits == {k \in j..(Len(row) - Len(value) + 1) : SubSeq(row, k, k + Len(value) - 1) = value} IN
    IF hits = {} THEN {}
    ELSE {SetMin(hits)} \cup MatchStarts(row, value, SetMin(hits) + Len(value))

\* the characters tag_add covers for one token: every occurrence of its value in the
\* buffer; column Len(line) + 1 of a line is its newline character
TokenCells(buf, value) ==
    UNION { UNION { {i} \X (m..(m + Len(value) - 1)) :
                       m \in MatchStarts(Append(buf[i], NL), value, 1) } :
            i \in 1..Len(buf) }

\* lines 901-914: the tags the loop over the tokens adds (tag_add of a range a second
\* time changes nothing, so equal tokens are taken once)
TagTokens(buf, tokens) ==
    UNION { { <<tok.type, cell[1], cell[2]>> : cell \in TokenCells(buf, tok.value) } :
            tok \in {tokens[k] : k \in 1..Len(tokens)} }

\* lines 855-858: tag_delete of every tag whose name starts with "token."
ClearedTags(old) == { t \in old : ~(Len(t[1]) >= 2 /\ t[1][1] = "token") }

\* _apply_syntax_highlight(editor, filepath): the tags on the buffer after the pass
Highlighted(available, path, buf, old) ==
    IF ~available THEN old
    ELSE IF LexerFor(path) = "" THEN ClearedTags(old)
    ELSE ClearedTags(old)
         \cup TagTokens(buf, Lex(LexerFor(path), split(editor_get(buf)), 1))

----------------------------------------------------------------------------
(* The text widget: the part of tkinter.Text's behaviour the handlers use. *)
(* A cell <<i, c>> is column c of line i; column Len(line) + 1 is the      *)
(* line's newline character.                                               *)

\* the methods of tkinter.Text that concern marks; the class has no mark_get
TextMarkMethods ==
    {"mark_gravity", "mark_names", "mark_set", "mark_unset", "mark_next", "mark_previous"}

CellTags(tg, i, c) == {t[1] : t \in {u \in tg : u[2] = i /\ u[3] = c}}

\* the tags text inserted at cell <<i, c>> receives: those on both of its neighbours
InheritedTags(buf, tg, i, c) ==
    IF c > 1 THEN CellTags(tg, i, c - 1) \cap CellTags(tg, i, c)
    ELSE IF i > 1 THEN CellTags(tg, i - 1, Len(buf[i - 1]) + 1) \cap CellTags(tg, i, c)
    ELSE {}

\* editor.insert(index, str) for a str without newline, index at cell <<i, c>>
InsertText(w, i, c, str) ==
    [w EXCEPT
       !.text = [@ EXCEPT ![i] = SubSeq(@, 1, c - 1) \o str \o SubSeq(@, c, Len(@))],
       !.tags = {t \in @ : t[2] # i \/ t[3] < c}
                \cup {<<t[1], i, t[3] + Len(str)>> : t \in {u \in @ : u[2] = i /\ u[3] >= c}}
                \cup (InheritedTags(w.text, @, i, c) \X {i} \X (c..(c + Len(str) - 1)))]

\* the buffer without its lines a..b (1 <= a, b <= number of lines)
DropLines(w, a, b) ==
    IF b < a THEN w
    ELSE [w EXCEPT
            !.text = SubSeq(@, 1, a - 1) \o SubSeq(@, b + 1, Len(@)),
            !.tags = {t \in @ : t[2] < a}
                     \cup {<<t[1], t[2] - (b - a + 1), t[3]>> : t \in {u \in @ : u[2] > b}}]

\* the buffer with the line `line` typed or pasted before line k
AddLine(w, k, line) ==
    [w EXCEPT
       !.text = SubSeq(@, 1, k - 1) \o <<line>> \o SubSeq(@, k, Len(@)),
       !.tags = {t \in @ : t[2] < k}
                \cup {<<t[1], t[2] + 1, t[3]>> : t \in {u \in @ : u[2] >= k}}
                \cup (InheritedTags(w.text, @, k, 1) \X {k} \X (1..(Len(line) + 1)))]

----------------------------------------------------------------------------
(* The fold toggle.                                                        *)

Placeholder == <<" ","[",".",".",".","]"," ">>

fold_mark(start_line) == <<"fold_", start_line>>

\* line 823, editor.delete(f"{start_line}.0+1l", f"{end_line}.0"): the lines after the
\* header up to the line before end_line; "+1l" stays on the last line, a line number
\* past the buffer is the buffer's end
DeleteFolded(w, start_line, end_line) ==
    LET n == Len(w.text) IN
    IF start_line >= n THEN w
    ELSE DropLines(w, start_line + 1, IF end_line > n THEN n ELSE end_line - 1)

\* line 827, editor.insert(f"{start_line}.0", " [...] ")
InsertPlaceholder(w, start_line) ==
    LET n == Len(w.text) IN
    IF start_line <= n THEN InsertText(w, start_line, 1, Placeholder)
    ELSE InsertText(w, n, Len(w.text[n]) + 1, Placeholder)

\* _toggle_fold(editor, start_line, end_line) on the widget state w: line 820 looks up
\* editor.mark_get, which tkinter.Text does not define, so the call ends there with an
\* AttributeError; lines 821-827 are what would follow an answer from such a method
toggle_fold(w, start_line, end_line) ==
    IF "mark_get" \notin TextMarkMethods
    THEN [w EXCEPT !.raised = "AttributeError"]
    ELSE IF fold_mark(start_line) \in w.marks
    THEN DeleteFolded([w EXCEPT !.marks = @ \ {fold_mark(start_line)}], start_line, end_line)
    ELSE InsertPlaceholder([w EXCEPT !.marks = @ \cup {fold_mark(start_line)}], start_line)

\* lines 836-837: the loop of _fold_all from the k-th region on; an exception ends it
RECURSIVE ToggleEach(_, _, _)
ToggleEach(w, regions, k) ==
    IF k > Len(regions) \/ w.raised # "" THEN w
    ELSE ToggleEach(toggle_fold(w, regions[k][2], regions[k][3]), regions, k + 1)

\* lines 836-837: the regions that the loop of _fold_all gives to _toggle_fold from the
\* k-th region on, in the order of the calls; the call that raises is the last one
RECURSIVE FoldAllCalls(_, _, _)
FoldAllCalls(w, regions, k) ==
    IF k > Len(regions) \/ w.raised # "" THEN <<>>
    ELSE <<regions[k]>> \o FoldAllCalls(toggle_fold(w, regions[k][2], regions[k][3]), regions, k + 1)

Widget == [text |-> text, marks |-> marks, tags |-> tags, raised |-> ""]

SetWidget(w) ==
    /\ text' = w.text
    /\ marks' = w.marks
    /\ tags' = w.tags
    /\ raised' = w.raised

----------------------------------------------------------------------------
(* Inputs.                                                                 *)

PyDefFoo == <<"d","e","f"," ","f","o","o","(",")",":">>
PyPass4 == <<" "," "," "," ","p","a","s","s">>
PyClassC == <<"c","l","a","s","s"," ","C",":">>
PyDefM == <<" "," "," "," ","d","e","f"," ","m","(","s","e","l","f",")",":">>
PyPass8 == <<" "," "," "," "," "," "," "," ","p","a","s","s">>
PyIfFoo == <<"i","f"," ","f","o","o",":">>
PyIfB4 == <<" "," "," "," ","i","f"," ","b",":">>
CVoidF == <<"v","o","i","d"," ","f","(",")"," ","{">>
CIntX == <<" "," ","i","n","t"," ","x",";">>
CClose == <<"}">>
CStructS == <<"s","t","r","u","c","t"," ","s"," ","{">>
COpen == <<"{">>
ClassBrace == <<"c","l","a","s","s"," ","C"," ","{">>
CSig == <<"f","(","x",")">>
CStrBraces == <<"s"," ","="," ","\"","{","}","\"",";">>
CChrQuote == <<"c"," ","="," ","'","\"","'",";">>
CBlockOpen == <<"/","*">>
CBlockClose == <<"*","/">>
CSlashesInBlock == <<"/","*","/","/","*","/">>
CStructCont == <<"s","t","r","u","c","t"," ","s"," ","\\">>
CTwoOpen == <<"u","n","i","o","n"," ","u"," ","{"," ","s","t","r","u","c","t"," ","{">>

PathPy == <<"a",".","p","y">>
PathC == <<"a",".","c">>
PathTxt == <<"a",".","t","x","t">>
PathHpp == <<"a",".","h","p","p">>

\* the longest file opened in SpecOpen, in lines
MaxOpenLines == 4

\* the longest buffer of Spec, in lines
MaxBufLines == 3

PyCatalogue == {PyDefFoo, PyPass4, PyClassC, PyDefM, PyPass8, PyIfFoo, PyIfB4, <<>>}

CCatalogue == {CVoidF, CIntX, CClose, CStructS, COpen, CSig, CStrBraces, CChrQuote, <<>>}

\* the longest file opened in SpecScan, in lines
MaxScanLines == 3

\* lines with comment delimiters, a continuation backslash and two braces
ScanCatalogue ==
    {CStructS, COpen, CClose, CBlockOpen, CBlockClose, CSlashesInBlock, CStructCont, CTwoOpen}

\* the lines typed in Spec; "class C {" opens a region in both grammars
EditCatalogue == {ClassBrace, CClose}

Files(catalogue, n) == {editor_get(b) : b \in UNION {[1..k -> catalogue] : k \in 1..n}}

----------------------------------------------------------------------------
(* State and handlers.                                                     *)

Init ==
    /\ opened = FALSE
    /\ filepath = <<>>
    /\ text = << <<>> >>
    /\ fold_regions = <<>>
    /\ snapshot = <<>>
    /\ marks = {}
    /\ tags = {}
    /\ raised = ""
    /\ hist = <<>>
    /\ PYGMENTS_AVAILABLE \in BOOLEAN
    /\ threads = <<>>
    /\ term_proc = 0
    /\ others = <<>>

\* Analyzed storing the result of the buffer as the pass before it read it
Analyzed_Stale(path, buf) ==
    /\ fold_regions' = IF path = <<>> THEN fold_regions
                       ELSE IF snapshot = <<>> THEN Regions(path, split(editor_get(buf)))
                       ELSE Regions(path, snapshot)
    /\ snapshot' = IF path = <<>> THEN snapshot ELSE split(editor_get(buf))

\* Analyzed with the new regions appended to the stored list instead of replacing it
Analyzed_Appending(path, buf) ==
    /\ fold_regions' = IF path = <<>> THEN fold_regions
                       ELSE fold_regions \o Regions(path, split(editor_get(buf)))
    /\ snapshot' = IF path = <<>> THEN snapshot ELSE split(editor_get(buf))

\* _analyze_code_structure(editor, path) on the buffer buf: nothing is stored for an
\* empty path (line 662), else the regions of the buffer's lines (line 753)
Analyzed(path, buf) ==
    /\ fold_regions' = IF path = <<>> THEN fold_regions
                       ELSE Regions(path, split(editor_get(buf)))
    /\ snapshot' = IF path = <<>> THEN snapshot ELSE split(editor_get(buf))

\* new_editor_tab(content, file_path): the buffer holds content, then the highlight
\* pass and the analysis pass run on it
new_editor_tab(content, file_path) ==
    /\ ~opened
    /\ opened' = TRUE
    /\ filepath' = file_path
    /\ text' = split(content)
    /\ tags' = Highlighted(PYGMENTS_AVAILABLE, file_path, split(content), {})
    /\ Analyzed(file_path, split(content))
    /\ marks' = {}
    /\ raised' = ""
    /\ hist' = <<>>
    /\ UNCHANGED <<PYGMENTS_AVAILABLE, threads, term_proc, others>>

\* a file of the catalogue is opened
OpenFile ==
    \E content \in Files(PyCatalogue, MaxOpenLines) : new_editor_tab(content, PathPy)

OpenCFile ==
    \E content \in Files(CCatalogue, MaxOpenLines) : new_editor_tab(content, PathC)

\* a tab is opened on a short file, or untitled
OpenTab ==
    \E content \in Files(EditCatalogue, MaxBufLines - 1), path \in {PathPy, PathC, PathTxt, <<>>} :
        new_editor_tab(content, path)

\* a tab is opened on a short file that is no .py, .c, .cpp or .h file, or untitled
OpenOther ==
    \E content \in Files(EditCatalogue, MaxBufLines - 1), path \in {PathHpp, PathTxt, <<>>} :
        new_editor_tab(content, path)

\* a handler call as hist keeps it: the handler, the region it was given, the buffer
\* and the fold marks it found, and the exception it ended with
Call(op, start_line, end_line, exc) ==
    [op |-> op, start |-> start_line, end |-> end_line, before |-> text,
     folded |-> marks, raised |-> exc]

\* hist keeps the latest call, and the one before it when the two are of a kind: two
\* toggles, two fold_all calls, or two of the other calls
Remember(entry) ==
    IF /\ hist # <<>>
       /\ (hist[Len(hist)].op = "toggle") = (entry.op = "toggle")
       /\ (hist[Len(hist)].op = "fold_all") = (entry.op = "fold_all")
    THEN <<hist[Len(hist)], entry>>
    ELSE <<entry>>

\* hist after an edit: a toggle that the edit follows directly is kept, as a toggle
\* followed by an edit; every other call is forgotten
Edited ==
    IF hist # <<>> /\ hist[Len(hist)].op = "toggle"
    THEN << [hist[Len(hist)] EXCEPT !.op = "toggle, edit"] >>
    ELSE <<>>

\* the text widget's own key bindings: a line is pasted before line k
PasteLine ==
    /\ opened
    /\ Len(text) < MaxBufLines
    /\ \E k \in 1..Len(text), line \in EditCatalogue :
          SetWidget(AddLine(Widget, k, line))
    /\ hist' = Edited
    /\ UNCHANGED <<opened, filepath, fold_regions, snapshot, PYGMENTS_AVAILABLE, threads, term_proc, others>>

\* the text widget's own key bindings: line k is cut
CutLine ==
    /\ opened
    /\ Len(text) > 1
    /\ \E k \in 1..Len(text) :
          SetWidget(DropLines(Widget, k, k))
    /\ hist' = Edited
    /\ UNCHANGED <<opened, filepath, fold_regions, snapshot, PYGMENTS_AVAILABLE, threads, term_proc, others>>

\* on_key_release with an analysis pass that stores its result as the only entry of
\* self.fold_regions
on_key_release_OnlyEntry ==
    /\ opened
    /\ tags' = Highlighted(PYGMENTS_AVAILABLE, filepath, text, tags)
    /\ Analyzed(filepath, text)
    /\ raised' = ""
    /\ hist' = Remember(Call("key_release", 0, 0, ""))
    /\ others' = [k \in DOMAIN others |-> [others[k] EXCEPT !.fold_regions = <<>>]]
    /\ UNCHANGED <<opened, filepath, text, marks, PYGMENTS_AVAILABLE, threads, term_proc>>

\* _on_key_release: the highlight pass, then the analysis pass
on_key_release ==
    /\ opened
    /\ tags' = Highlighted(PYGMENTS_AVAILABLE, filepath, text, tags)
    /\ Analyzed(filepath, text)
    /\ raised' = ""
    /\ hist' = Remember(Call("key_release", 0, 0, ""))
    /\ UNCHANGED <<opened, filepath, text, marks, PYGMENTS_AVAILABLE, threads, term_proc, others>>

\* the first region of the list whose marker is drawn on display line l (lines 803-814)
ClickedRegion(l) ==
    LET hits == {k \in 1..Len(fold_regions) : fold_regions[k][2] = l} IN
    IF hits = {} THEN 0 ELSE SetMin(hits)

\* _on_fold_click on the marker of display line l: _toggle_fold of the region it belongs to
on_fold_click ==
    /\ opened
    /\ \E l \in 1..Len(text) :
          /\ ClickedRegion(l) # 0
          /\ LET r == fold_regions[ClickedRegion(l)]
                 w == toggle_fold(Widget, r[2], r[3]) IN
             /\ SetWidget(w)
             /\ hist' = Remember(Call("toggle", r[2], r[3], w.raised))
    /\ UNCHANGED <<opened, filepath, fold_regions, snapshot, PYGMENTS_AVAILABLE, threads, term_proc, others>>

\* _fold_all: _toggle_fold of every region, in list order
fold_all ==
    /\ opened
    /\ SetWidget(ToggleEach(Widget, fold_regions, 1))
    /\ hist' = Remember(Call("fold_all", 0, 0, ToggleEach(Widget, fold_regions, 1).raised))
    /\ UNCHANGED <<opened, filepath, fold_regions, snapshot, PYGMENTS_AVAILABLE, threads, term_proc, others>>

\* _unfold_all: an analysis pass when the tab has a file path
unfold_all ==
    /\ opened
    /\ Analyzed(filepath, text)
    /\ raised' = ""
    /\ hist' = Remember(Call("unfold_all", 0, 0, ""))
    /\ UNCHANGED <<opened, filepath, text, marks, tags, PYGMENTS_AVAILABLE, threads, term_proc, others>>

Next ==
    \/ OpenTab
    \/ PasteLine
    \/ CutLine
    \/ on_key_release
    \/ on_fold_click
    \/ fold_all
    \/ unfold_all

Spec == Init /\ [][Next]_vars

NextOpen ==
    \/ OpenFile
    \/ OpenCFile
    \/ OpenOther

SpecOpen == Init /\ [][NextOpen]_vars

\* a .c file with comments and continuation lines is opened
OpenScanFile ==
    \E content \in Files(ScanCatalogue, MaxScanLines) : new_editor_tab(content, PathC)

\* a .h file of the same lines is opened
OpenScanHeader ==
    \E content \in Files(ScanCatalogue, MaxScanLines - 1) :
        new_editor_tab(content, <<"a",".","h">>)

NextScan ==
    \/ OpenScanFile
    \/ OpenScanHeader

SpecScan == Init /\ [][NextScan]_vars

\* the fold commands on a Python file as it was opened
NextFold ==
    \/ OpenFile
    \/ fold_all
    \/ unfold_all

SpecFold == Init /\ [][NextFold]_vars

\* the most editor tabs of SpecTabs
MaxTabs == 2

\* the selected tab as the notebook keeps it while another tab is selected
Current ==
    [filepath |-> filepath, text |-> text, fold_regions |-> fold_regions,
     snapshot |-> snapshot, marks |-> marks, tags |-> tags]

\* new_editor_tab(content, file_path) when a tab is open already: the new tab is added
\* and selected (lines 618-619), and the tab that was selected stays in the notebook;
\* the new editor has no entry in self.fold_regions until an analysis pass stores one
another_editor_tab(content, file_path) ==
    /\ opened
    /\ Len(others) + 1 < MaxTabs
    /\ others' = Append(others, Current)
    /\ filepath' = file_path
    /\ text' = split(content)
    /\ tags' = Highlighted(PYGMENTS_AVAILABLE, file_path, split(content), {})
    /\ fold_regions' = IF file_path = <<>> THEN <<>>
                       ELSE Regions(file_path, split(editor_get(split(content))))
    /\ snapshot' = IF file_path = <<>> THEN <<>> ELSE split(editor_get(split(content)))
    /\ marks' = {}
    /\ raised' = ""
    /\ hist' = <<>>
    /\ UNCHANGED <<opened, PYGMENTS_AVAILABLE, threads, term_proc>>

\* a further tab is opened on a short file, or untitled
OpenAnotherTab ==
    \E content \in Files(EditCatalogue, MaxBufLines - 1), path \in {PathC, <<>>} :
        another_editor_tab(content, path)

\* the notebook's own binding: a click on the k-th of the other tabs selects it
select_tab ==
    /\ opened
    /\ \E k \in 1..Len(others) :
          /\ others' = [others EXCEPT ![k] = Current]
          /\ filepath' = others[k].filepath
          /\ text' = others[k].text
          /\ fold_regions' = others[k].fold_regions
          /\ snapshot' = others[k].snapshot
          /\ marks' = others[k].marks
          /\ tags' = others[k].tags
    /\ hist' = <<>>
    /\ UNCHANGED <<opened, raised, PYGMENTS_AVAILABLE, threads, term_proc>>

NextTabs ==
    \/ OpenTab
    \/ OpenAnotherTab
    \/ select_tab
    \/ PasteLine
    \/ on_key_release
    \/ unfold_all

SpecTabs == Init /\ [][NextTabs]_vars

----------------------------------------------------------------------------
(* Run and Stop: the threads that run a child process, and the terminal.    *)
(* A thread is [target, pc, proc]: the function it runs, where it is in it, *)
(* and the state of the child process it started last.                      *)

\* the number of threads started in SpecRun
MaxThreads == 2

ExtOf(path) ==
    IF endswith(path, ExtPy) THEN ExtPy
    ELSE IF endswith(path, ExtCpp) THEN ExtCpp
    ELSE IF endswith(path, ExtCxx) THEN ExtCxx
    ELSE IF endswith(path, ExtCc) THEN ExtCc
    ELSE IF endswith(path, ExtC) THEN ExtC
    ELSE <<>>

\* lines 1226-1231: the thread target run_current picks by the file's extension
RunTarget(path) ==
    IF ExtOf(path) = ExtPy THEN "_run_python"
    ELSE IF ExtOf(path) \in {ExtC, ExtCpp, ExtCc, ExtCxx} THEN "_run_c_cpp"
    ELSE ""

RunTargets == {"_run_python", "_run_c_cpp"}

Thread(target) == [target |-> target, pc |-> "start", proc |-> "none"]

EditorVars ==
    <<opened, filepath, text, fold_regions, snapshot, marks, tags, raised,
      PYGMENTS_AVAILABLE, others>>

\* a saved file is opened in a tab
OpenToRun ==
    \E path \in {PathPy, PathC} : new_editor_tab(<<>>, path)

\* run_current: a thread is started for the file of the tab; without a file path, or
\* with another file type, a warning is shown and nothing is started
run_current ==
    /\ opened
    /\ filepath # <<>>
    /\ RunTarget(filepath) # ""
    /\ Len(threads) < MaxThreads
    /\ threads' = Append(threads, Thread(RunTarget(filepath)))
    /\ UNCHANGED <<EditorVars, hist, term_proc>>

\* TerminalTab._on_enter: a thread is started for the command typed
on_enter ==
    /\ Len(threads) < MaxThreads
    /\ threads' = Append(threads, Thread("_run_cmd"))
    /\ UNCHANGED <<EditorVars, hist, term_proc>>

\* _run_python, line 1242: Popen starts the child, or raises and the thread ends
run_python_popen ==
    \E t \in 1..Len(threads) :
        /\ threads[t].target = "_run_python"
        /\ threads[t].pc = "start"
        /\ \/ threads' = [threads EXCEPT ![t].pc = "reading", ![t].proc = "running"]
           \/ threads' = [threads EXCEPT ![t].pc = "done"]
        /\ UNCHANGED <<EditorVars, hist, term_proc>>

\* _run_c_cpp, line 1274: subprocess.run starts the compiler and waits for it, or raises
run_c_cpp_compile ==
    \E t \in 1..Len(threads) :
        /\ threads[t].target = "_run_c_cpp"
        /\ threads[t].pc = "start"
        /\ \/ threads' = [threads EXCEPT ![t].pc = "compiling", ![t].proc = "running"]
           \/ threads' = [threads EXCEPT ![t].pc = "done"]
        /\ UNCHANGED <<EditorVars, hist, term_proc>>

\* _run_c_cpp, lines 1276-1283: the compiler has ended; on a non-zero return code the
\* thread ends, else Popen starts the program, or raises
run_c_cpp_compiled ==
    \E t \in 1..Len(threads) :
        /\ threads[t].target = "_run_c_cpp"
        /\ threads[t].pc = "compiling"
        /\ threads[t].proc \in {"exited", "terminated"}
        /\ \/ threads' = [threads EXCEPT ![t].pc = "done"]
           \/ /\ threads[t].proc = "exited"
              /\ threads' = [threads EXCEPT ![t].pc = "reading", ![t].proc = "running"]
        /\ UNCHANGED <<EditorVars, hist, term_proc>>

\* TerminalTab._run_cmd, line 86: Popen starts the shell; an exception ends the thread
\* by way of line 97, self.proc = None
run_cmd_popen ==
    \E t \in 1..Len(threads) :
        /\ threads[t].target = "_run_cmd"
        /\ threads[t].pc = "start"
        /\ \/ /\ threads' = [threads EXCEPT ![t].pc = "popened", ![t].proc = "running"]
              /\ UNCHANGED term_proc
           \/ /\ threads' = [threads EXCEPT ![t].pc = "done"]
              /\ term_proc' = 0
        /\ UNCHANGED <<EditorVars, hist>>

\* TerminalTab._run_cmd, line 87: self.proc = p
run_cmd_assign ==
    \E t \in 1..Len(threads) :
        /\ threads[t].target = "_run_cmd"
        /\ threads[t].pc = "popened"
        /\ threads' = [threads EXCEPT ![t].pc = "reading"]
        /\ term_proc' = t
        /\ UNCHANGED <<EditorVars, hist>>

\* a child process ends by itself
child_exit ==
    \E t \in 1..Len(threads) :
        /\ threads[t].proc = "running"
        /\ threads' = [threads EXCEPT ![t].proc = "exited"]
        /\ UNCHANGED <<EditorVars, hist, term_proc>>

\* the loops over the child's output end when the child has ended, then wait() returns
\* and the thread ends (lines 88-97, 1247-1259, 1285-1297); _run_cmd ends with
\* self.proc = None
thread_finish ==
    \E t \in 1..Len(threads) :
        /\ threads[t].pc = "reading"
        /\ threads[t].proc \in {"exited", "terminated"}
        /\ threads' = [threads EXCEPT ![t].pc = "done"]
        /\ term_proc' = IF threads[t].target = "_run_cmd" THEN 0 ELSE term_proc
        /\ UNCHANGED <<EditorVars, hist>>

\* stop_current_terminal_process: terminate() on the proc of the selected terminal
\* when it is not None
stop_current_terminal_process ==
    /\ threads' = IF term_proc # 0 /\ threads[term_proc].proc = "running"
                  THEN [threads EXCEPT ![term_proc].proc = "terminated"]
                  ELSE threads
    /\ hist' = Remember(Call("stop", 0, 0, ""))
    /\ UNCHANGED <<EditorVars, term_proc>>

NextRun ==
    \/ OpenToRun
    \/ run_current
    \/ on_enter
    \/ run_python_popen
    \/ run_c_cpp_compile
    \/ run_c_cpp_compiled
    \/ run_cmd_popen
    \/ run_cmd_assign
    \/ child_exit
    \/ thread_finish
    \/ stop_current_terminal_process

SpecRun == Init /\ [][NextRun]_vars

----------------------------------------------------------------------------
(* Properties.                                                             *)

Nests(a, b) == a[2] <= b[2] /\ b[3] <= a[3]

Disjoint(a, b) == a[3] < b[2] \/ b[3] < a[2]

IsAnalysisCall(c) == c.op \in {"key_release", "unfold_all"}

\* C1: the region list of an analysis pass is a forest under nesting: two distinct
\* regions share no line, or one contains the other.
C1_Forest ==
    \A a \in 1..Len(fold_regions), b \in 1..Len(fold_regions) :
        a # b => \/ Disjoint(fold_regions[a], fold_regions[b])
                 \/ Nests(fold_regions[a], fold_regions[b])
                 \/ Nests(fold_regions[b], fold_regions[a])

\* C2: the region list is sorted by start line ascending, then end line descending.
C2_Sorted ==
    \A k \in 1..(Len(fold_regions) - 1) :
        \/ fold_regions[k][2] < fold_regions[k + 1][2]
        \/ /\ fold_regions[k][2] = fold_regions[k + 1][2]
           /\ fold_regions[k][3] >= fold_regions[k + 1][3]

\* C3: every region of the list has startLine < endLine, so a header on the last
\* line of the input has no region.
C3_StartBeforeEnd ==
    \A k \in 1..Len(fold_regions) : fold_regions[k][2] < fold_regions[k][3]

RECURSIVE TokenTypeAt(_, _, _)
TokenTypeAt(tokens, k, c) ==
    IF c <= Len(tokens[k].value) THEN tokens[k].type
    ELSE TokenTypeAt(tokens, k + 1, c - Len(tokens[k].value))

\* C5: after the highlight pass every character carries the tag of the token that
\* covers it and no tag of any other token.
C5_TagsOnOwnSpan ==
    (opened /\ PYGMENTS_AVAILABLE /\ LexerFor(filepath) # "")
    => \A i \in 1..Len(text) : \A c \in 1..Len(text[i]) :
          CellTags(tags, i, c) = {TokenTypeAt(LexLine(LexerFor(filepath), text[i], 1, <<>>), 1, c)}

C6Text == CVoidF \o <<NL>> \o CIntX \o <<NL>> \o CClose \o <<NL>>

\* C6: the brace-grammar text "void f() {\n  int x;\n}\n" has exactly one region,
\* Block 1-3.
C6_VoidFBlock ==
    (opened /\ filepath = PathC /\ editor_get(text) = C6Text)
    => fold_regions = << <<"block", 1, 3>> >>

C7Text == PyDefFoo \o <<NL>> \o PyPass4 \o <<NL>>

\* C7: the indentation-grammar text "def foo():\n    pass\n" has exactly one region,
\* Function 1-2.
C7_DefFooFunction ==
    (opened /\ filepath = PathPy /\ editor_get(text) = C7Text)
    => fold_regions = << <<"function", 1, 2>> >>

C8Text == PyClassC \o <<NL>> \o PyDefM \o <<NL>> \o PyPass8 \o <<NL>>

\* C8: the indentation-grammar text "class C:\n    def m(self):\n        pass\n" has
\* exactly the regions Class 1-3 and Function 2-3, the Class first.
C8_ClassThenMethod ==
    (opened /\ filepath = PathPy /\ editor_get(text) = C8Text)
    => fold_regions = << <<"class", 1, 3>>, <<"function", 2, 3>> >>

\* the first unescaped character q of the line at or after column k, 0 when there is none
RECURSIVE ClosingAt(_, _, _)
ClosingAt(line, k, q) ==
    IF k > Len(line) THEN 0
    ELSE IF line[k] = "\\" THEN ClosingAt(line, k + 2, q)
    ELSE IF line[k] = q THEN k
    ELSE ClosingAt(line, k + 1, q)

\* the columns of a line that lie inside a string literal, between its opening quote and
\* its closing unescaped quote on the line, by the language's lexical rules: quotes in
\* comments and in character literals open nothing
RECURSIVE StringCols(_, _, _)
StringCols(line, j, in_block) ==
    IF j > Len(line) THEN [cols |-> {}, in_block |-> in_block]
    ELSE IF in_block
    THEN IF j < Len(line) /\ line[j] = "*" /\ line[j + 1] = "/"
         THEN StringCols(line, j + 2, FALSE)
         ELSE StringCols(line, j + 1, TRUE)
    ELSE IF j < Len(line) /\ line[j] = "/" /\ line[j + 1] = "/"
    THEN [cols |-> {}, in_block |-> FALSE]
    ELSE IF j < Len(line) /\ line[j] = "/" /\ line[j + 1] = "*"
    THEN StringCols(line, j + 2, TRUE)
    ELSE IF line[j] \in {"\"", "'"}
    THEN LET b == ClosingAt(line, j + 1, line[j]) IN
         IF b = 0 THEN [cols |-> {}, in_block |-> FALSE]
         ELSE LET rest == StringCols(line, b + 1, FALSE) IN
              [cols |-> (IF line[j] = "\"" THEN (j + 1)..(b - 1) ELSE {}) \cup rest.cols,
               in_block |-> rest.in_block]
    ELSE StringCols(line, j + 1, FALSE)

RECURSIVE StringCells(_, _, _)
StringCells(lines, i, in_block) ==
    IF i > Len(lines) THEN {}
    ELSE LET here == StringCols(lines[i], 1, in_block) IN
         ({i} \X here.cols) \cup StringCells(lines, i + 1, here.in_block)

\* C9: a brace inside a string literal neither pushes nor pops: with it replaced by
\* another character the region list is the same.
C9_StringBracesIgnored ==
    (opened /\ filepath = PathC)
    => \A cell \in StringCells(text, 1, FALSE) :
          text[cell[1]][cell[2]] \in {"{", "}"}
          => Regions(filepath, [text EXCEPT ![cell[1]][cell[2]] = "x"]) = fold_regions

FoldKeys(regions) == [k \in 1..Len(regions) |-> fold_mark(regions[k][2])]

\* C10: an analysis pass on a buffer that is unchanged since the pass that stored the
\* current region list stores an identical list: same kinds and bounds, same order,
\* same fold keys.
C10_Idempotent ==
    [][ (/\ opened
         /\ filepath # <<>>
         /\ snapshot = split(editor_get(text))
         /\ (on_key_release \/ unfold_all))
        => /\ fold_regions' = fold_regions
           /\ FoldKeys(fold_regions') = FoldKeys(fold_regions) ]_vars

\* two analysis passes in a row, without an edit between them, on a buffer with regions
C10_Witness ==
    /\ Len(hist) = 2
    /\ IsAnalysisCall(hist[1]) /\ IsAnalysisCall(hist[2])
    /\ fold_regions # <<>>
    /\ snapshot = split(editor_get(text))

\* the step is a call of _on_key_release or _unfold_all
IsAnalysisStep ==
    /\ hist' # <<>>
    /\ hist' # hist
    /\ IsAnalysisCall(hist'[Len(hist')])

\* C11: a result is stored only by a step that runs an analysis pass, and what such a
\* step stores is the result of the buffer as that step leaves it: no result of an
\* earlier buffer version is stored once the buffer has moved on.
C11_NoStaleResult ==
    [][ (/\ filepath' # <<>>
         /\ \/ fold_regions' # fold_regions
            \/ snapshot' # snapshot
            \/ IsAnalysisStep)
        => /\ snapshot' = split(editor_get(text'))
           /\ fold_regions' = Regions(filepath', snapshot') ]_vars

\* an analysis pass has run on a buffer that was edited since the tab was opened
C11_Witness ==
    /\ Len(hist) = 1
    /\ hist[1].op = "key_release"
    /\ Len(text) = MaxBufLines
    /\ snapshot = split(editor_get(text))
    /\ fold_regions # <<>>

\* the call the step has just recorded
LastCall == hist'[Len(hist')]

\* C12: a toggle of an expanded region (startLine, endLine) of the buffer completes,
\* marks the region collapsed, and leaves the buffer with the lines up to startLine as
\* they were, one placeholder line in the place of lines startLine+1..endLine, and the
\* lines after endLine as they were.
C12_CollapseElides ==
    [][ (/\ on_fold_click
         /\ fold_mark(LastCall.start) \notin marks
         /\ LastCall.end <= Len(text))
        => LET s == LastCall.start
               e == LastCall.end IN
           /\ raised' = ""
           /\ fold_mark(s) \in marks'
           /\ Len(text') = Len(text) - (e - s) + 1
           /\ SubSeq(text', 1, s) = SubSeq(text, 1, s)
           /\ SubSeq(text', s + 2, Len(text')) = SubSeq(text, e + 1, Len(text)) ]_vars

\* C13: fold_all completes, and after it every region of the list is collapsed, those
\* that were collapsed before the call included.
C13_FoldAllCollapses ==
    [][ fold_all
        => /\ raised' = ""
           /\ \A k \in 1..Len(fold_regions) : fold_mark(fold_regions[k][2]) \in marks' ]_vars

\* the fold marks never exist: no toggle gets as far as mark_set
NeverCollapsed == marks = {}

\* the buffer new is the buffer old after an edit above line s that moved that line to
\* s2 and left it and every line after it as they were
EditAbove(old, new, s, s2) ==
    /\ s \in 1..Len(old)
    /\ s2 \in 1..Len(new)
    /\ s2 # s
    /\ Len(new) - s2 = Len(old) - s
    /\ SubSeq(new, s2, Len(new)) = SubSeq(old, s, Len(old))

Recognised(path) == \E x \in {ExtPy, ExtC, ExtCpp, ExtH} : endswith(path, x)

\* C17: after the passes on a buffer whose path the analyzer does not recognise, the
\* empty path included, no error is raised, the fold-region list is empty and the
\* buffer carries no style tag.
C17_UnknownTypeNoOp ==
    (opened /\ ~Recognised(filepath))
    => /\ raised = ""
       /\ fold_regions = <<>>
       /\ tags = {}

\* the buffer buf of the file path has a region from line s to line e
Present(path, buf, s, e) ==
    LET now == Regions(path, buf) IN
    /\ e <= Len(buf)
    /\ \E k \in 1..Len(now) : now[k][2] = s /\ now[k][3] = e

\* C18: a toggle of a region of the stored list that the buffer no longer has (an
\* analysis of the buffer as it is gives no region on these lines, or the lines lie
\* beyond the buffer's end) raises no error and changes neither the text nor the marks.
C18_AbsentRegionNoOp ==
    [][ (/\ on_fold_click
         /\ ~Present(filepath, text, LastCall.start, LastCall.end))
        => /\ raised' = ""
           /\ text' = text
           /\ marks' = marks ]_vars

\* C19: a call of Stop terminates every child process that a thread of Run has started
\* and that is still running.
C19_StopTerminatesRunChild ==
    [][ stop_current_terminal_process
        => \A t \in 1..Len(threads) :
              (threads[t].target \in RunTargets /\ threads[t].proc = "running")
              => threads'[t].proc = "terminated" ]_vars

\* the line takes the third branch of the loop (line 682): it ends with ':', is no
\* comment and no class or def line
IsBlockIntroducer(line) ==
    /\ ~startswith(strip(line), KwClass)
    /\ ~startswith(strip(line), KwDef)
    /\ endswith(strip(line), <<":">>)
    /\ ~startswith(strip(line), <<"#">>)

\* indent_stack after the loop of lines 673-690 has processed lines 1..i
StackAfter(lines, i) ==
    PyLines([indent_stack |-> <<>>, fold_regions |-> <<>>], 1, SubSeq(lines, 1, i)).indent_stack

\* C20: after the indent scanner has processed a block-introducer line of indent w, no
\* entry pushed by an earlier line is on the stack with an indent >= w, at any depth.
C20_NoDeeperEntryLeft ==
    (opened /\ endswith(filepath, ExtPy))
    => \A i \in 1..Len(text) :
          IsBlockIntroducer(text[i])
          => LET stack == StackAfter(text, i) IN
             \A k \in 1..Len(stack) :
                stack[k][2] < i => stack[k][3] < indent_of(text[i])

\* the columns of a line that are code by the language's lexical rules: outside string
\* and character literals, outside block comments and before a line comment
RECURSIVE CodeCols(_, _, _)
CodeCols(line, j, in_block) ==
    IF j > Len(line) THEN [cols |-> {}, in_block |-> in_block]
    ELSE IF in_block
    THEN IF j < Len(line) /\ line[j] = "*" /\ line[j + 1] = "/"
         THEN CodeCols(line, j + 2, FALSE)
         ELSE CodeCols(line, j + 1, TRUE)
    ELSE IF j < Len(line) /\ line[j] = "/" /\ line[j + 1] = "/"
    THEN [cols |-> {}, in_block |-> FALSE]
    ELSE IF j < Len(line) /\ line[j] = "/" /\ line[j + 1] = "*"
    THEN CodeCols(line, j + 2, TRUE)
    ELSE IF line[j] \in {"\"", "'"}
    THEN LET b == ClosingAt(line, j + 1, line[j]) IN
         IF b = 0 THEN [cols |-> {}, in_block |-> FALSE]
         ELSE CodeCols(line, b + 1, FALSE)
    ELSE LET rest == CodeCols(line, j + 1, FALSE) IN
         [cols |-> {j} \cup rest.cols, in_block |-> rest.in_block]

RECURSIVE CodeCells(_, _, _)
CodeCells(lines, i, in_block) ==
    IF i > Len(lines) THEN {}
    ELSE LET here == CodeCols(lines[i], 1, in_block) IN
         ({i} \X here.cols) \cup CodeCells(lines, i + 1, here.in_block)

\* ordinary brace balancing over the code cells, from cell <<i, j>> on: the set of
\* pairs <<opening cell, closing cell>>
RECURSIVE Balance(_, _, _, _, _)
Balance(lines, i, j, stack, code) ==
    IF i > Len(lines) THEN {}
    ELSE IF j > Len(lines[i]) THEN Balance(lines, i + 1, 1, stack, code)
    ELSE IF <<i, j>> \in code /\ lines[i][j] = "{"
    THEN Balance(lines, i, j + 1, Append(stack, <<i, j>>), code)
    ELSE IF <<i, j>> \in code /\ lines[i][j] = "}" /\ stack # <<>>
    THEN {<<stack[Len(stack)], <<i, j>>>>}
         \cup Balance(lines, i, j + 1, SubSeq(stack, 1, Len(stack) - 1), code)
    ELSE Balance(lines, i, j + 1, stack, code)

BracePairs(lines) == Balance(lines, 1, 1, <<>>, CodeCells(lines, 1, FALSE))

\* the analysis pass uses the brace grammar for the path
IsBracePath(path) == ~endswith(path, ExtPy) /\ Recognised(path)

\* C21: every region (s, e) of a brace-grammar buffer pairs an opening brace on line s
\* with the closing brace on line e that closes it under ordinary brace balancing.
C21_RegionsAreBalancedPairs ==
    (opened /\ IsBracePath(filepath))
    => \A k \in 1..Len(fold_regions) :
          \E pair \in BracePairs(text) :
             pair[1][1] = fold_regions[k][2] /\ pair[2][1] = fold_regions[k][3]

\* the scanner's state before line i
ScanStateBefore(lines, i) == ScanLines(ScanInit, SubSeq(lines, 1, i - 1), 1)

\* C22: at the start of every line of a brace-grammar buffer the scanner is not in
\* string mode.
C22_StringEndsWithLine ==
    (opened /\ IsBracePath(filepath))
    => \A i \in 1..Len(text) : ~ScanStateBefore(text, i).in_string

\* the trace of the scanner agrees with the scanner
TraceAgrees ==
    (opened /\ IsBracePath(filepath))
    => /\ ScanTrace(text).st = ScanLines(ScanInit, text, 1)
       /\ ScanTrace(text).st.fold_regions = fold_regions

\* the cell's character, and the one after it on the line ("" at the line's end)
CharAt(lines, c) == lines[c.line][c.col]

NextCharAt(lines, c) ==
    IF c.col < Len(lines[c.line]) THEN lines[c.line][c.col + 1] ELSE ""

\* C23: a '//' that the scanner meets inside a block comment does not end the scan of
\* the line: the character after the first slash is visited.
C23_SlashesInCommentScanOn ==
    (opened /\ IsBracePath(filepath))
    => \A c \in ScanTrace(text).seen :
          (/\ CharAt(text, c) = "/"
           /\ NextCharAt(text, c) = "/"
           /\ c.before.in_comment
           /\ ~c.before.escape_next)
          => \E d \in ScanTrace(text).seen : d.line = c.line /\ d.col = c.col + 1

\* C24: the scanner skips a character as escaped only in string mode and only when the
\* backslash is on the same line: no first character of a line is skipped, and none
\* outside string mode.
C24_EscapeOnlyInString ==
    (opened /\ IsBracePath(filepath))
    => \A c \in ScanTrace(text).seen :
          c.before.escape_next => (c.col > 1 /\ c.before.in_string)

\* C25: the regions that one event of the indent scanner closes are emitted in LIFO
\* order: among the regions a block-introducer line closes (same end line), and among
\* those closed at the end of the input, a later-pushed entry (greater start line)
\* comes before every earlier-pushed one.
C25_ClosedLifo ==
    (opened /\ endswith(filepath, ExtPy))
    => LET st == PyLines([indent_stack |-> <<>>, fold_regions |-> <<>>], 1, text)
           popped == SubSeq(fold_regions, 1, Len(st.fold_regions))
           tail == SubSeq(fold_regions, Len(st.fold_regions) + 1, Len(fold_regions)) IN
       /\ \A a \in 1..Len(popped), b \in 1..Len(popped) :
             (a < b /\ popped[a][3] = popped[b][3]) => popped[a][2] > popped[b][2]
       /\ \A a \in 1..Len(tail), b \in 1..Len(tail) :
             a < b => tail[a][2] > tail[b][2]

\* the iteration pushed an opener for its line
Pushed(c) == c.after.brace_stack = Append(c.before.brace_stack, <<"block", c.line>>)

\* the condition of C26 for the brace at column j of line i: a keyword in the previous
\* line or in the part of line i before the brace, or a previous line that ends with
\* identifier ( ... ) and optional blanks
ClaimOpens(lines, i, j) ==
    LET prev == IF i >= 2 THEN lines[i - 1] ELSE <<>>
        part == SubSeq(lines[i], 1, j - 1) IN
    \/ \E keyword \in FoldKeywords : Contains(prev, keyword) \/ Contains(part, keyword)
    \/ SignatureAtEnd(prev)

\* C26: a '{' that the scanner meets in Normal mode (outside comments and strings)
\* pushes an opener for its line exactly when the condition of the claim holds.
C26_OpenerHeuristic ==
    (opened /\ IsBracePath(filepath))
    => \A c \in ScanTrace(text).seen :
          (CharAt(text, c) = "{" /\ ~c.before.in_comment /\ ~c.before.in_string)
          => (Pushed(c) <=> ClaimOpens(text, c.line, c.col))

\* the cells <<i, j>> where a '*/' starts
ClosePositions(lines) ==
    UNION { { <<i, j>> : j \in {k \in 1..(Len(lines[i]) - 1) :
                                   lines[i][k] = "*" /\ lines[i][k + 1] = "/"} } :
            i \in 1..Len(lines) }

Before(a, b) == a[1] < b[1] \/ (a[1] = b[1] /\ a[2] < b[2])

\* the iteration met a '/*' in Normal mode
OpensComment(c) == ~c.before.in_comment /\ c.after.in_comment

\* the cell lies after the '/*' met at c and before the first '*/' that follows it
InsideComment(lines, c, cell) ==
    /\ Before(<<c.line, c.col + 1>>, cell)
    /\ ~\E p \in ClosePositions(lines) :
          ~Before(p, <<c.line, c.col + 2>>) /\ Before(p, cell)

\* C27: after a '/*' met in Normal mode, every '{' and '}' before the first '*/' that
\* follows, on the same line or on a later one, pushes nothing and pops nothing.
C27_CommentThreaded ==
    (opened /\ IsBracePath(filepath))
    => LET seen == ScanTrace(text).seen IN
       \A c \in seen :
          OpensComment(c)
          => \A d \in seen :
                (/\ CharAt(text, d) \in {"{", "}"}
                 /\ InsideComment(text, c, <<d.line, d.col>>))
                => /\ d.after.brace_stack = d.before.brace_stack
                   /\ d.after.fold_regions = d.before.fold_regions

\* a '{' that would open a fold lies on a line after the '/*' that hides it
C27_Witness ==
    /\ opened /\ IsBracePath(filepath)
    /\ \E c \in ScanTrace(text).seen, d \in ScanTrace(text).seen :
          /\ OpensComment(c)
          /\ d.line > c.line
          /\ CharAt(text, d) = "{"
          /\ InsideComment(text, c, <<d.line, d.col>>)
          /\ OpensFold(text, d.line, d.col)

\* C28: within one analysis result no two regions have the same start line, so that
\* the mark fold_<startLine> names at most one region of the list.
C28_StartLinesDistinct ==
    opened
    => \A a \in 1..Len(fold_regions), b \in 1..Len(fold_regions) :
          a # b => fold_mark(fold_regions[a][2]) # fold_mark(fold_regions[b][2])

\* region inner lies inside region outer
NestedIn(inner, outer) ==
    /\ outer[2] < inner[2]
    /\ inner[3] <= outer[3]

\* C29: fold_all toggles outer to inner: when it toggles a region, it has already
\* toggled every region of the list that the region is nested in.
C29_FoldAllOuterFirst ==
    [][ fold_all
        => LET calls == FoldAllCalls(Widget, fold_regions, 1) IN
           \A b \in 1..Len(calls) :
              \A k \in 1..Len(fold_regions) :
                 NestedIn(calls[b], fold_regions[k])
                 => \E a \in 1..(b - 1) : calls[a] = fold_regions[k] ]_vars

====
